---------------------------- MODULE Spec2Model ----------------------------
(***************************************************************************)
(* Clipping core of src/main.py: cohen_sutherland_clip (a segment against  *)
(* an axis-aligned rectangle) and sutherland_hodgman_clip_polygon (a       *)
(* polygon against a clip polygon).                                        *)
(*                                                                         *)
(* Coordinates are exact rationals <<n, d>> with d > 0 in lowest terms:    *)
(* the real-valued coordinates of the data model.  Every arithmetic        *)
(* operation of the source is carried out on them as written there, in     *)
(* the same order; a division by zero is the ZeroDivisionError outcome.    *)
(***************************************************************************)
EXTENDS Integers, Sequences, FiniteSets, TLC

(***************************************************************************)
(* Bounds of the model                                                     *)
(***************************************************************************)
\* segment endpoints and rectangle sides lie on the grid 0..GridMax
GridMax == 3
\* cap of the per-endpoint replacement counters n1, n2
MaxIter == 6
\* arbitrary vertex lists: points on the grid 0..SeqGridMax, at most
\* MaxSubjectLen subject vertices and MaxClipperLen clipper vertices
SeqGridMax == 1
MaxSubjectLen == 3
MaxClipperLen == 4
\* polygons: vertices on the grid 0..PolyGridMax, at most MaxPolyLen of them
PolyGridMax == 3
MaxPolyLen == 4

(***************************************************************************)
(* Exact rational arithmetic                                               *)
(***************************************************************************)
Abs(n) == IF n < 0 THEN -n ELSE n

RECURSIVE Gcd(_, _)
Gcd(a, b) == IF b = 0 THEN a ELSE Gcd(b, a % b)

\* the rational n/d (d # 0) in lowest terms with a positive denominator
Rat(n, d) ==
    IF d = 1
    THEN << n, 1 >>
    ELSE LET g == Gcd(Abs(n), Abs(d))
             s == IF d < 0 THEN -1 ELSE 1
         IN  << (s * n) \div g, (s * d) \div g >>

Num(n) == << n, 1 >>
Zero == Num(0)
One == Num(1)

Add(a, b) == Rat(a[1] * b[2] + b[1] * a[2], a[2] * b[2])
Sub(a, b) == Rat(a[1] * b[2] - b[1] * a[2], a[2] * b[2])
Mul(a, b) == Rat(a[1] * b[1], a[2] * b[2])
\* defined for b # Zero only
Div(a, b) == Rat(a[1] * b[2], a[2] * b[1])
Lt(a, b) == a[1] * b[2] < b[1] * a[2]
Le(a, b) == a[1] * b[2] <= b[1] * a[2]
Gt(a, b) == Lt(b, a)
Ge(a, b) == Le(b, a)
RMax(a, b) == IF Lt(a, b) THEN b ELSE a
RMin(a, b) == IF Lt(b, a) THEN b ELSE a

(***************************************************************************)
(* Geometry                                                                *)
(***************************************************************************)
Point(x, y) == [x |-> x, y |-> y]
Segment(a, b) == [p1 |-> a, p2 |-> b]
Rect(x0, y0, x1, y1) == [xmin |-> x0, ymin |-> y0, xmax |-> x1, ymax |-> y1]

\* the value of the locals of a function that is not running
NoPoint == Point(Zero, Zero)

(***************************************************************************)
(* cohen_sutherland_clip                                                   *)
(***************************************************************************)
INSIDE == 0
LEFT == 1
RIGHT == 2
BOTTOM == 4
TOP == 8

HasBit(code, bit) == (code \div bit) % 2 = 1

\* code |= bit
BitOr(code, bit) == IF HasBit(code, bit) THEN code ELSE code + bit

\* c1 & c2 on the four outcode bits
BitAnd(a, b) ==
    (IF HasBit(a, LEFT) /\ HasBit(b, LEFT) THEN LEFT ELSE 0)
  + (IF HasBit(a, RIGHT) /\ HasBit(b, RIGHT) THEN RIGHT ELSE 0)
  + (IF HasBit(a, BOTTOM) /\ HasBit(b, BOTTOM) THEN BOTTOM ELSE 0)
  + (IF HasBit(a, TOP) /\ HasBit(b, TOP) THEN TOP ELSE 0)

\* variant: a point on the boundary counts as outside
OutcodeClosedMut(p, r) ==
    LET cx == IF Le(p.x, r.xmin) THEN BitOr(INSIDE, LEFT)
              ELSE IF Ge(p.x, r.xmax) THEN BitOr(INSIDE, RIGHT) ELSE INSIDE
    IN  IF Le(p.y, r.ymin) THEN BitOr(cx, BOTTOM)
        ELSE IF Ge(p.y, r.ymax) THEN BitOr(cx, TOP) ELSE cx

\* def outcode(p): the if/elif pair on x, then the if/elif pair on y
outcode(p, r) ==
    LET cx == IF Lt(p.x, r.xmin) THEN BitOr(INSIDE, LEFT)
              ELSE IF Gt(p.x, r.xmax) THEN BitOr(INSIDE, RIGHT) ELSE INSIDE
    IN  IF Lt(p.y, r.ymin) THEN BitOr(cx, BOTTOM)
        ELSE IF Gt(p.y, r.ymax) THEN BitOr(cx, TOP) ELSE cx

\* cohen_sutherland_clip: the arguments, the locals, the position in the
\* loop, the replacements of p1 and of p2 so far, the call (first, second)
VARIABLES seg, rect, p1, p2, c1, c2, pc, n1, n2, round
\* sutherland_hodgman_clip_polygon: the arguments, the index of the clip
\* edge, the working polygon, the calls of intersection made by the last
\* pass, the position
VARIABLES poly, clipper, i, output, calls, pcp

csVars == << seg, rect, p1, p2, c1, c2, pc, n1, n2, round >>
shVars == << poly, clipper, i, output, calls, pcp >>
vars == << csVars, shVars >>

Coord == 0 .. GridMax
GridPoints == { Point(Num(x), Num(y)) : x \in Coord, y \in Coord }
Segments == { Segment(a, b) : a \in GridPoints, b \in GridPoints }
\* valid rectangles: xmin <= xmax and ymin <= ymax
Rects == { Rect(Num(x0), Num(y0), Num(x1), Num(y1)) :
             x0 \in Coord, y0 \in Coord, x1 \in Coord, y1 \in Coord }
ValidRects == { r \in Rects : Le(r.xmin, r.xmax) /\ Le(r.ymin, r.ymax) }

\* entry of cohen_sutherland_clip(s, r): the copies and the two outcodes
Enter(s, r) ==
    /\ seg' = s
    /\ rect' = r
    /\ p1' = Point(s.p1.x, s.p1.y)
    /\ p2' = Point(s.p2.x, s.p2.y)
    /\ c1' = outcode(s.p1, r)
    /\ c2' = outcode(s.p2, r)
    /\ pc' = "loop"
    /\ n1' = 0
    /\ n2' = 0

InitCS ==
    \E s \in Segments, r \in ValidRects :
        /\ seg = s
        /\ rect = r
        /\ p1 = Point(s.p1.x, s.p1.y)
        /\ p2 = Point(s.p2.x, s.p2.y)
        /\ c1 = outcode(s.p1, r)
        /\ c2 = outcode(s.p2, r)
        /\ pc = "loop"
        /\ n1 = 0
        /\ n2 = 0
        /\ round = 1
        /\ poly = << >>
        /\ clipper = << >>
        /\ i = 0
        /\ output = << >>
        /\ calls = {}
        /\ pcp = "idle"

\* if c1 == 0 and c2 == 0: return Segment(p1, p2)
TrivialAccept == c1 = 0 /\ c2 = 0

\* variant: reject only when the two outcodes are equal
TrivialRejectEqMut(a, b) == a = b /\ a # 0

\* if c1 & c2: return None
TrivialReject(a, b) == BitAnd(a, b) # 0

\* out = c1 or c2
Out == IF c1 # 0 THEN c1 ELSE c2

\* the branch of the if/elif chain taken for Out
Branch ==
    IF HasBit(Out, TOP) THEN TOP
    ELSE IF HasBit(Out, BOTTOM) THEN BOTTOM
    ELSE IF HasBit(Out, RIGHT) THEN RIGHT
    ELSE IF HasBit(Out, LEFT) THEN LEFT
    ELSE INSIDE

\* the denominator of the interpolation of branch b
Denominator(b) ==
    IF b \in {TOP, BOTTOM} THEN Sub(p2.y, p1.y) ELSE Sub(p2.x, p1.x)

\* variant: the offset is taken from p2.y
InterpXFromP2Mut(bound) ==
    Add(p1.x, Div(Mul(Sub(p2.x, p1.x), Sub(bound, p2.y)), Sub(p2.y, p1.y)))

\* x = p1.x + (p2.x - p1.x) * (bound - p1.y) / (p2.y - p1.y)
InterpX(bound) ==
    Add(p1.x, Div(Mul(Sub(p2.x, p1.x), Sub(bound, p1.y)), Sub(p2.y, p1.y)))

\* y = p1.y + (p2.y - p1.y) * (bound - p1.x) / (p2.x - p1.x)
InterpY(bound) ==
    Add(p1.y, Div(Mul(Sub(p2.y, p1.y), Sub(bound, p1.x)), Sub(p2.x, p1.x)))

\* variant: the outcode of the new endpoint is not recomputed but taken
\* to be INSIDE
ReplaceAssumeInsideMut(q) ==
    IF Out = c1
    THEN /\ p1' = q
         /\ c1' = INSIDE
         /\ n1' = n1 + 1
         /\ UNCHANGED << p2, c2, n2, pc >>
    ELSE /\ p2' = q
         /\ c2' = INSIDE
         /\ n2' = n2 + 1
         /\ UNCHANGED << p1, c1, n1, pc >>

\* if out == c1: p1, c1 = ... else: p2, c2 = ...
Replace(q) ==
    IF Out = c1
    THEN /\ p1' = q
         /\ c1' = outcode(q, rect)
         /\ n1' = n1 + 1
         /\ UNCHANGED << p2, c2, n2, pc >>
    ELSE /\ p2' = q
         /\ c2' = outcode(q, rect)
         /\ n2' = n2 + 1
         /\ UNCHANGED << p1, c1, n1, pc >>

\* one pass of the loop through branch b, cut at the point (x, y)
Clip(b) ==
    /\ pc = "loop"
    /\ ~TrivialAccept
    /\ ~TrivialReject(c1, c2)
    /\ n1 < MaxIter /\ n2 < MaxIter
    /\ IF Denominator(b) = Zero
       THEN /\ pc' = "ZeroDivisionError"
            /\ UNCHANGED << p1, p2, c1, c2, n1, n2 >>
       ELSE Replace(CASE b = TOP -> Point(InterpX(rect.ymax), rect.ymax)
                      [] b = BOTTOM -> Point(InterpX(rect.ymin), rect.ymin)
                      [] b = RIGHT -> Point(rect.xmax, InterpY(rect.xmax))
                      [] b = LEFT -> Point(rect.xmin, InterpY(rect.xmin)))
    /\ UNCHANGED << seg, rect, round, shVars >>

Accept ==
    /\ pc = "loop"
    /\ TrivialAccept
    /\ pc' = "accept"
    /\ UNCHANGED << seg, rect, p1, p2, c1, c2, n1, n2, round, shVars >>

Reject ==
    /\ pc = "loop"
    /\ ~TrivialAccept
    /\ TrivialReject(c1, c2)
    /\ pc' = "reject"
    /\ UNCHANGED << seg, rect, p1, p2, c1, c2, n1, n2, round, shVars >>

\* if out & TOP:
ClipTop == Branch = TOP /\ Clip(TOP)

\* elif out & BOTTOM:
ClipBottom == Branch = BOTTOM /\ Clip(BOTTOM)

\* elif out & RIGHT:
ClipRight == Branch = RIGHT /\ Clip(RIGHT)

\* elif out & LEFT:
ClipLeft == Branch = LEFT /\ Clip(LEFT)

\* the returned segment is clipped again against the same rectangle
ClipAgain ==
    /\ pc = "accept"
    /\ round = 1
    /\ round' = 2
    /\ Enter(Segment(p1, p2), rect)
    /\ UNCHANGED shVars

NextCS ==
    \/ Accept
    \/ Reject
    \/ ClipTop
    \/ ClipBottom
    \/ ClipRight
    \/ ClipLeft
    \/ ClipAgain

SpecCS == InitCS /\ [][NextCS]_vars

(***************************************************************************)
(* sutherland_hodgman_clip_polygon                                         *)
(***************************************************************************)
\* (b.x - a.x) * (p.y - a.y) - (b.y - a.y) * (p.x - a.x)
Cross(p, a, b) ==
    Sub(Mul(Sub(b.x, a.x), Sub(p.y, a.y)), Mul(Sub(b.y, a.y), Sub(p.x, a.x)))

\* variant: a point on the clip line counts as outside
InsideStrictMut(p, a, b) == Gt(Cross(p, a, b), Zero)

\* variant: the right side of the clip edge counts as inside
InsideFlippedMut(p, a, b) == Le(Cross(p, a, b), Zero)

\* def inside(p, a, b)
inside(p, a, b) == Ge(Cross(p, a, b), Zero)

\* det = A1 * B2 - A2 * B1
Det(q1, q2, a, b) ==
    LET A1 == Sub(q2.y, q1.y)
        B1 == Sub(q1.x, q2.x)
        A2 == Sub(b.y, a.y)
        B2 == Sub(a.x, b.x)
    IN  Sub(Mul(A1, B2), Mul(A2, B1))

\* variant: C2 = A2 * a.x - B2 * a.y
IntersectionSignMut(q1, q2, a, b) ==
    LET A1 == Sub(q2.y, q1.y)
        B1 == Sub(q1.x, q2.x)
        C1 == Add(Mul(A1, q1.x), Mul(B1, q1.y))
        A2 == Sub(b.y, a.y)
        B2 == Sub(a.x, b.x)
        C2 == Sub(Mul(A2, a.x), Mul(B2, a.y))
        det == Det(q1, q2, a, b)
    IN  IF det = Zero
        THEN q2
        ELSE Point(Div(Sub(Mul(B2, C1), Mul(B1, C2)), det),
                   Div(Sub(Mul(A1, C2), Mul(A2, C1)), det))

\* def intersection(p1, p2, a, b); det == 0 returns p2
intersection(q1, q2, a, b) ==
    LET A1 == Sub(q2.y, q1.y)
        B1 == Sub(q1.x, q2.x)
        C1 == Add(Mul(A1, q1.x), Mul(B1, q1.y))
        A2 == Sub(b.y, a.y)
        B2 == Sub(a.x, b.x)
        C2 == Add(Mul(A2, a.x), Mul(B2, a.y))
        det == Det(q1, q2, a, b)
    IN  IF det = Zero
        THEN q2
        ELSE Point(Div(Sub(Mul(B2, C1), Mul(B1, C2)), det),
                   Div(Sub(Mul(A1, C2), Mul(A2, C1)), det))

\* variant: the elif of the inner loop is an else
PairStepElseMut(P, Q, A, B) ==
    IF inside(Q, A, B)
    THEN IF ~inside(P, A, B)
         THEN [emit |-> << intersection(P, Q, A, B), Q >>, calls |-> {<< P, Q, A, B >>}]
         ELSE [emit |-> << Q >>, calls |-> {}]
    ELSE [emit |-> << intersection(P, Q, A, B) >>, calls |-> {<< P, Q, A, B >>}]

\* the body of the inner loop for the pair (P, Q): what it appends to
\* output, and the arguments of the call of intersection it makes, if any
PairStep(P, Q, A, B) ==
    IF inside(Q, A, B)
    THEN IF ~inside(P, A, B)
         THEN [emit |-> << intersection(P, Q, A, B), Q >>, calls |-> {<< P, Q, A, B >>}]
         ELSE [emit |-> << Q >>, calls |-> {}]
    ELSE IF inside(P, A, B)
         THEN [emit |-> << intersection(P, Q, A, B) >>, calls |-> {<< P, Q, A, B >>}]
         ELSE [emit |-> << >>, calls |-> {}]

\* P = input_list[j], Q = input_list[(j + 1) % len(input_list)], 1-based
PairAt(input, j, A, B) ==
    PairStep(input[j], input[(j % Len(input)) + 1], A, B)

\* output.append(...) for what one pair emits, with its call noted
Append2(acc, step) ==
    [emit |-> acc.emit \o step.emit, calls |-> acc.calls \cup step.calls]

\* for j in range(len(input_list)): the pass from j on, acc being output
\* and the calls of intersection so far
RECURSIVE PassFrom(_, _, _, _, _)
PassFrom(input, j, A, B, acc) ==
    IF j > Len(input)
    THEN acc
    ELSE PassFrom(input, j + 1, A, B, Append2(acc, PairAt(input, j, A, B)))

\* input_list = output; output = []; the inner loop
Pass(input, A, B) == PassFrom(input, 1, A, B, [emit |-> << >>, calls |-> {}])

\* A, B = clipper[i], clipper[(i + 1) % len(clipper)], 1-based
EdgeA(c, k) == c[k + 1]
\* variant: the last clip edge does not wrap to clipper[0]
EdgeBNoWrapMut(c, k) == c[IF k + 1 < Len(c) THEN k + 2 ELSE k + 1]

EdgeB(c, k) == c[((k + 1) % Len(c)) + 1]

\* one pass of  for i in range(len(clipper))
ClipEdge ==
    /\ pcp = "edges"
    /\ i < Len(clipper)
    /\ \E pass \in {Pass(output, EdgeA(clipper, i), EdgeB(clipper, i))} :
           /\ output' = pass.emit
           /\ calls' = pass.calls
    /\ i' = i + 1
    /\ UNCHANGED << poly, clipper, pcp, csVars >>

\* return output
Return ==
    /\ pcp = "edges"
    /\ i = Len(clipper)
    /\ pcp' = "done"
    /\ UNCHANGED << poly, clipper, i, output, calls, csVars >>

NextSH == ClipEdge \/ Return

(***************************************************************************)
(* Inputs of sutherland_hodgman_clip_polygon                               *)
(***************************************************************************)
SeqsUpTo(S, n) == UNION { [1 .. k -> S] : k \in 0 .. n }

\* any vertex lists (repeated and collinear vertices included) on a grid
SeqPoints == { Point(Num(x), Num(y)) : x \in 0 .. SeqGridMax, y \in 0 .. SeqGridMax }
SeqSubjects == SeqsUpTo(SeqPoints, MaxSubjectLen)
SeqClippers == SeqsUpTo(SeqPoints, MaxClipperLen)

Edges(c) == { << c[k], c[(k % Len(c)) + 1] >> : k \in 1 .. Len(c) }

Sign(r) == IF r[1] > 0 THEN 1 ELSE IF r[1] < 0 THEN -1 ELSE 0

\* q lies on the closed segment a-b
OnSegment(q, a, b) ==
    /\ Cross(q, a, b) = Zero
    /\ Le(RMin(a.x, b.x), q.x) /\ Le(q.x, RMax(a.x, b.x))
    /\ Le(RMin(a.y, b.y), q.y) /\ Le(q.y, RMax(a.y, b.y))

\* the closed segments a-b and c-d have a point in common
SegmentsMeet(a, b, c, d) ==
    \/ /\ Sign(Cross(c, a, b)) * Sign(Cross(d, a, b)) < 0
       /\ Sign(Cross(a, c, d)) * Sign(Cross(b, c, d)) < 0
    \/ OnSegment(c, a, b)
    \/ OnSegment(d, a, b)
    \/ OnSegment(a, c, d)
    \/ OnSegment(b, c, d)

\* a simple polygon: at least 3 distinct vertices, no straight angle, and
\* no two edges that meet except neighbours at their common vertex
Simple(c) ==
    LET n == Len(c)
        nxt(k) == (k % n) + 1
    IN  /\ n >= 3
        /\ \A j, k \in 1 .. n : j # k => c[j] # c[k]
        /\ \A k \in 1 .. n : Cross(c[nxt(nxt(k))], c[k], c[nxt(k)]) # Zero
        /\ \A j, k \in 1 .. n :
              (j < k /\ nxt(j) # k /\ nxt(k) # j) =>
                  ~SegmentsMeet(c[j], c[nxt(j)], c[k], c[nxt(k)])

\* every turn is a left turn: strictly convex, interior left of each edge
LeftTurns(c) ==
    LET n == Len(c)
        nxt(k) == (k % n) + 1
    IN  \A k \in 1 .. n : Gt(Cross(c[nxt(nxt(k))], c[k], c[nxt(k)]), Zero)

Reverse(c) == [k \in 1 .. Len(c) |-> c[Len(c) + 1 - k]]

ConvexLeft(c) == Simple(c) /\ LeftTurns(c)
ConvexRight(c) == ConvexLeft(Reverse(c))

\* simple subject polygons on the grid 0..PolyGridMax, and strictly convex
\* clippers (either winding) on its inner points
PolyPoints == { Point(Num(x), Num(y)) : x \in 0 .. PolyGridMax, y \in 0 .. PolyGridMax }
InnerPoints == { q \in PolyPoints : /\ Lt(Zero, q.x) /\ Lt(q.x, Num(PolyGridMax))
                                    /\ Lt(Zero, q.y) /\ Lt(q.y, Num(PolyGridMax)) }
\* the subject's first vertex is the corner (0, 0) of the grid
Origin == Point(Zero, Zero)
PolySubjects ==
    { c \in { << Origin >> \o r : r \in SeqsUpTo(PolyPoints, MaxPolyLen - 1) } : Simple(c) }
PolyClippers == { c \in SeqsUpTo(InnerPoints, MaxPolyLen) : ConvexLeft(c) \/ ConvexRight(c) }

\* entry of sutherland_hodgman_clip_polygon(s, c): output = poly
Call(s, c) ==
    /\ poly = s
    /\ clipper = c
    /\ i = 0
    /\ output = s
    /\ calls = {}
    /\ pcp = "edges"
    /\ seg = Segment(NoPoint, NoPoint)
    /\ rect = Rect(Zero, Zero, Zero, Zero)
    /\ p1 = NoPoint
    /\ p2 = NoPoint
    /\ c1 = INSIDE
    /\ c2 = INSIDE
    /\ pc = "idle"
    /\ n1 = 0
    /\ n2 = 0
    /\ round = 0

InitSH ==
    \/ \E s \in SeqSubjects, c \in SeqClippers : Call(s, c)
    \/ \E s \in PolySubjects, c \in PolyClippers : Call(s, c)

SpecSH == InitSH /\ [][NextSH]_vars

(***************************************************************************)
(* Properties of cohen_sutherland_clip                                     *)
(***************************************************************************)
\* The part of seg inside the closed rectangle, stated independently of
\* the outcodes: the points seg.p1 + t * (seg.p2 - seg.p1), 0 <= t <= 1,
\* that satisfy the four inequalities  a * t <= b  of Halfplanes.
SegDx == Sub(seg.p2.x, seg.p1.x)
SegDy == Sub(seg.p2.y, seg.p1.y)

Halfplanes ==
    { << Sub(Zero, SegDx), Sub(seg.p1.x, rect.xmin) >>,
      << SegDx, Sub(rect.xmax, seg.p1.x) >>,
      << Sub(Zero, SegDy), Sub(seg.p1.y, rect.ymin) >>,
      << SegDy, Sub(rect.ymax, seg.p1.y) >> }

RECURSIVE MaxOf(_)
MaxOf(S) ==
    LET a == CHOOSE e \in S : TRUE
    IN  IF S = {a} THEN a ELSE RMax(a, MaxOf(S \ {a}))

RECURSIVE MinOf(_)
MinOf(S) ==
    LET a == CHOOSE e \in S : TRUE
    IN  IF S = {a} THEN a ELSE RMin(a, MinOf(S \ {a}))

\* the least and the greatest parameter of a point of seg in the rectangle
TEnter == MaxOf({Zero} \cup { Div(h[2], h[1]) : h \in { g \in Halfplanes : Lt(g[1], Zero) } })
TLeave == MinOf({One} \cup { Div(h[2], h[1]) : h \in { g \in Halfplanes : Gt(g[1], Zero) } })

NoPointInRect ==
    \/ \E h \in Halfplanes : h[1] = Zero /\ Lt(h[2], Zero)
    \/ Gt(TEnter, TLeave)

PointAt(t) == Point(Add(seg.p1.x, Mul(t, SegDx)), Add(seg.p1.y, Mul(t, SegDy)))

\* C1: the call returns None exactly when no point of the segment lies in
\* the closed rectangle, and otherwise the segment from the first point of
\* the input inside the rectangle (counted from p1) to the last one.
C1_ExactIntersection ==
    /\ pc = "reject" => NoPointInRect
    /\ pc = "accept" => /\ ~NoPointInRect
                        /\ p1 = PointAt(TEnter)
                        /\ p2 = PointAt(TLeave)
    /\ pc \in {"loop", "accept", "reject"}
    /\ (pc # "loop" /\ outcode(seg.p1, rect) = INSIDE /\ outcode(seg.p2, rect) = INSIDE) =>
           pc = "accept" /\ p1 = seg.p1 /\ p2 = seg.p2
    /\ (pc # "loop" /\ BitAnd(outcode(seg.p1, rect), outcode(seg.p2, rect)) # 0) =>
           pc = "reject"

\* a segment crossing the rectangle was cut at both ends and returned
C1_Witness ==
    /\ pc = "accept"
    /\ round = 1
    /\ n1 >= 1
    /\ n2 >= 1
    /\ p1 # p2

\* a returned segment: both endpoints are inside and unchanged
C1_WitnessInside == pc = "accept" /\ round = 1 /\ n1 = 0 /\ n2 = 0 /\ p1 # p2

\* C6: clipping the returned segment against the same rectangle returns a
\* segment with exactly its endpoints (seg is the first call's result in
\* round 2).
C6_Idempotent ==
    round = 2 =>
        \/ pc = "loop" /\ TrivialAccept
        \/ pc = "accept" /\ p1 = seg.p1 /\ p2 = seg.p2 /\ n1 = 0 /\ n2 = 0

\* the second call returned, for a segment the first call had cut
C6_Witness ==
    /\ round = 2
    /\ pc = "accept"
    /\ seg.p1 \notin GridPoints

\* C8: the loop ends by accept or reject, and neither endpoint is
\* replaced more than 4 times before it does: n1 and n2 count the
\* replacements of p1 and of p2 and stay within 4, every pass that stays
\* in the loop is one more replacement, and a pass is always possible (an
\* accept, a reject, or a cut with a defined result).
C8_Terminates ==
    /\ [](/\ n1 <= 4
          /\ n2 <= 4
          /\ pc \in {"loop", "accept", "reject"}
          /\ pc = "loop" =>
                \/ TrivialAccept
                \/ TrivialReject(c1, c2)
                \/ Branch # INSIDE /\ Denominator(Branch) # Zero)
    /\ [][(pc = "loop" /\ pc' = "loop") => n1' + n2' = n1 + n2 + 1]_vars

\* an endpoint was replaced twice before the accept
C8_Witness == pc = "accept" /\ n1 = 2

\* C9: no interpolation divides by zero: the branch about to be taken has
\* a non-zero denominator, and a zero-length segment is accepted or
\* rejected without any cut.
C9_NoZeroDenominator ==
    /\ pc # "ZeroDivisionError"
    /\ (pc = "loop" /\ ~TrivialAccept /\ ~TrivialReject(c1, c2)) =>
          /\ Branch # INSIDE
          /\ Denominator(Branch) # Zero
    /\ seg.p1 = seg.p2 => n1 = 0 /\ n2 = 0

\* a horizontal segment was cut at both ends by a rectangle of zero width
C9_Witness ==
    /\ pc = "accept"
    /\ round = 1
    /\ seg.p1.y = seg.p2.y
    /\ rect.xmin = rect.xmax
    /\ n1 = 1
    /\ n2 = 1

\* a zero-length segment was decided by its outcode
C9_WitnessPoint == pc = "reject" /\ seg.p1 = seg.p2

(***************************************************************************)
(* Properties of sutherland_hodgman_clip_polygon                           *)
(***************************************************************************)
Vertices(c) == { c[k] : k \in 1 .. Len(c) }

\* q is in the interior of the simple polygon c (q not on its boundary):
\* the ray from q towards +x crosses an odd number of edges
RayCrosses(q, a, b) ==
    /\ Gt(a.y, q.y) # Gt(b.y, q.y)
    /\ Lt(q.x, Add(a.x, Div(Mul(Sub(q.y, a.y), Sub(b.x, a.x)), Sub(b.y, a.y))))

InPolygon(q, c) ==
    Cardinality({ k \in 1 .. Len(c) : RayCrosses(q, c[k], c[(k % Len(c)) + 1]) }) % 2 = 1

BoundariesMeet(s, c) ==
    \E e \in Edges(s), f \in Edges(c) : SegmentsMeet(e[1], e[2], f[1], f[2])

\* the closed regions of the simple polygons s and c have a common point
RegionsMeet(s, c) ==
    \/ BoundariesMeet(s, c)
    \/ InPolygon(s[1], c)
    \/ InPolygon(c[1], s)

\* c lies in the interior of s
StrictlyContains(s, c) == ~BoundariesMeet(s, c) /\ InPolygon(c[1], s)

Convex(c) == ConvexLeft(c) \/ ConvexRight(c)

\* C2: an empty subject or an empty clipper yields an empty result.
C2_EmptyYieldsEmpty ==
    (pcp = "done" /\ (poly = << >> \/ clipper = << >>)) => output = << >>

\* C3 as stated: a simple subject (convex or not) whose region has no point
\* in common with the region of a convex, left-inside clipper yields an
\* empty polygon.
C3_DisjointYieldsEmpty ==
    (/\ pcp = "done"
     /\ Simple(poly)
     /\ ConvexLeft(clipper)
     /\ ~RegionsMeet(poly, clipper)) => output = << >>

\* C3 amended: a convex subject whose region has no point in common with
\* the region of a convex, left-inside clipper yields an empty polygon.
C3_ConvexDisjointYieldsEmpty ==
    (/\ pcp = "done"
     /\ Convex(poly)
     /\ ConvexLeft(clipper)
     /\ ~RegionsMeet(poly, clipper)) => output = << >>

\* a convex subject cut by two lines of the clipper but disjoint from it
\* was clipped to nothing, not by the first clip edge
C3_Witness ==
    /\ pcp = "done"
    /\ Convex(poly)
    /\ ConvexLeft(clipper)
    /\ ~RegionsMeet(poly, clipper)
    /\ output = << >>
    /\ \E q \in Vertices(poly) :
          Ge(Cross(q, EdgeA(clipper, 0), EdgeB(clipper, 0)), Zero)

\* every subject vertex passes the signed-area test of every clip edge
AllInside(s, c) ==
    \A q \in Vertices(s) : \A k \in 0 .. Len(c) - 1 :
        Ge(Cross(q, EdgeA(c, k), EdgeB(c, k)), Zero)

\* C4 as stated: such a subject is returned as the same vertex sequence.
C4_ReturnedUnchanged ==
    (pcp = "done" /\ clipper # << >> /\ AllInside(poly, clipper)) => output = poly

\* s turned left by k places: s[k + 1], ..., s[n], s[1], ..., s[k]
RotateLeft(s, k) == [j \in 1 .. Len(s) |-> s[((j - 1 + k) % Len(s)) + 1]]

\* C4 amended: such a subject is returned with the same vertices in the
\* same cyclic order, the list turned left by one place per clip edge,
\* len(clipper) mod len(subject) places in all.
C4_ReturnedRotated ==
    (pcp = "done" /\ clipper # << >> /\ AllInside(poly, clipper)) =>
        /\ Len(output) = Len(poly)
        /\ poly # << >> => output = RotateLeft(poly, Len(clipper) % Len(poly))

\* a triangle inside a triangular clipper came back as it went in
C4_Witness ==
    /\ pcp = "done"
    /\ Simple(poly)
    /\ ConvexLeft(clipper)
    /\ AllInside(poly, clipper)
    /\ Len(clipper) = Len(poly)
    /\ output = poly

\* a triangle inside a square clipper came back turned by one place
C4_WitnessRotated ==
    /\ pcp = "done"
    /\ Len(poly) = 3
    /\ Len(clipper) = 4
    /\ ConvexLeft(clipper)
    /\ AllInside(poly, clipper)
    /\ output = RotateLeft(poly, 1)
    /\ output # poly

C7_OutsideReturned ==
    (/\ pcp = "done"
     /\ Simple(poly)
     /\ ConvexRight(clipper)
     /\ ~RegionsMeet(poly, clipper)) => output # << >>

\* C7 amended: with the opposite winding of a convex clipper the result is
\* the subject cut to the outer side of every clip edge, and no point is on
\* the outer side of all of them: the result is empty for every subject.
C7_OppositeWindingEmpty ==
    (pcp = "done" /\ ConvexRight(clipper)) => output = << >>

\* a subject entirely outside a clipper of opposite winding came back empty
C7_Witness ==
    /\ pcp = "done"
    /\ Simple(poly)
    /\ ConvexRight(clipper)
    /\ ~RegionsMeet(poly, clipper)
    /\ output = << >>

\* C10: every call of intersection is for a pair of which exactly one is
\* inside the clip edge, its determinant is the difference of the two
\* signed areas of the inside test, and it is not zero: the fallback
\* (return p2) is never taken.
C10_FallbackNeverTaken ==
    \A call \in calls :
        LET P == call[1]
            Q == call[2]
            A == call[3]
            B == call[4]
        IN  /\ Ge(Cross(P, A, B), Zero) # Ge(Cross(Q, A, B), Zero)
            /\ Det(P, Q, A, B) = Sub(Cross(P, A, B), Cross(Q, A, B))
            /\ Det(P, Q, A, B) # Zero

\* a pass over a clipper with a repeated vertex called intersection
C10_Witness ==
    /\ calls # {}
    /\ Len(clipper) = 3
    /\ Cardinality(Vertices(clipper)) = 2

=============================================================================
